---- MODULE Spec2Model ----
(***************************************************************************)
(* bevy_io_sink: a non-blocking persistence sink.                          *)
(*                                                                         *)
(* Producers push records into an unbounded channel (IoSender); one        *)
(* background task (spawn_io_sink_task) owns the writer (FileSink) and     *)
(* overwrites the destination file in place for every record it receives.  *)
(* A second background task (the loader spawned by FileSinkPlugin::build)  *)
(* reads the same file once at startup and hands the parsed value to the   *)
(* application loop over a second channel.                                 *)
(*                                                                         *)
(* A record is modelled as a natural number, serialized by serde_json as   *)
(* its decimal digits; a file is a sequence of bytes.                      *)
(***************************************************************************)
EXTENDS Naturals, Sequences, FiniteSets

\* ------------------------------------------------------------------ bounds
\* Records that can be enqueued over a run.
MaxSends == 2
\* I/O errors the environment may inject over a run.
MaxFaults == 1

\* --------------------------------------------------------------- constants
\* BufWriter::with_capacity(64 * 1024, file)
BufCap == 65536

\* ------------------------------------------------------------------- bytes
\* Bytes 0..9 stand for the ASCII digits '0'..'9'.
NUL == 10        \* a zero byte, as set_len pads a file it extends
JUNK == 11       \* an ASCII byte that is no part of a JSON number
BADUTF8 == 12    \* a byte that is not valid UTF-8 (e.g. 0xFF)
DigitBytes == 0..9

\* The records producers send: a one-byte and a two-byte serialization.
Records == {7, 12}
\* R::default()
Default == 0

\* The producers: the systems of the application loop, which send through
\* the IoSender resource of the World, and a holder of a clone of it.
Producers == {"system", "clone"}

\* serde_json::to_vec(&data): the decimal digits of the number.
RECURSIVE Ser(_)
Ser(n) == IF n < 10 THEN <<n>> ELSE Ser(n \div 10) \o <<n % 10>>

\* The number a sequence of digit bytes denotes.
RECURSIVE DigitsValue(_)
DigitsValue(s) ==
    IF s = <<>> THEN 0
    ELSE 10 * DigitsValue(SubSeq(s, 1, Len(s) - 1)) + s[Len(s)]

\* serde_json::from_str accepts exactly a JSON number here: a non-empty run
\* of digits with no leading zero (and nothing else around it).
ParseOk(s) ==
    /\ s # <<>>
    /\ \A i \in 1..Len(s) : s[i] \in DigitBytes
    /\ (Len(s) > 1 => s[1] # 0)

\* serde_json::from_str(&buf).unwrap_or_default()
FromStrOrDefault(s) == IF ParseOk(s) THEN DigitsValue(s) ELSE Default

\* String validity as read_to_string checks it.
ValidUtf8(s) == \A i \in 1..Len(s) : s[i] # BADUTF8

\* ------------------------------------------------------------ file helpers
Max(a, b) == IF a > b THEN a ELSE b
Min(a, b) == IF a < b THEN a ELSE b

\* The first n elements of s.
Take(s, n) == SubSeq(s, 1, Min(n, Len(s)))
\* s without its first n elements.
Drop(s, n) == SubSeq(s, n + 1, Len(s))

\* A faulty write that ignores the position and appends.
WriteAppend(data, pos, bytes) == data \o bytes

\* write(2) of bytes at offset pos: overwrites in place, extends the file
\* when the data runs past its end (a gap is filled with zero bytes).
WriteAt(data, pos, bytes) ==
    [i \in 1..Max(Len(data), pos + Len(bytes)) |->
        IF i > pos /\ i <= pos + Len(bytes) THEN bytes[i - pos]
        ELSE IF i <= Len(data) THEN data[i]
        ELSE NUL]

\* A faulty set_len that extends a file but never truncates it.
SetLenKeepsTail(data, n) ==
    IF n <= Len(data) THEN data
    ELSE data \o [i \in 1..(n - Len(data)) |-> NUL]

\* File::set_len(n): truncates, or extends with zero bytes.
SetLen(data, n) ==
    [i \in 1..n |-> IF i <= Len(data) THEN data[i] ELSE NUL]


\* ------------------------------------------------------------------- state
VARIABLES
    fileExists,   \* the destination path names a file
    fileData,     \* its bytes
    fileAtStart,  \* what the path held before the app started (never changes)
    exited,       \* the App (its World and every resource in it) was dropped
    clones,       \* producers that still hold a clone of IoSender
    queue,        \* the sink channel: records in flight, oldest first
    sendResult,   \* what the latest try_send returned
    tasks,        \* persistence tasks spawned so far
    pc,           \* where the persistence task stands
    msg,          \* the record the persistence task is writing
    lockHeld,     \* the writer mutex is held
    wOpen,        \* FileSink.writer is Some
    wBuf,         \* the bytes buffered in the BufWriter
    wPos,         \* the cursor of the writer's file handle
    opens,        \* file handles FileSink::init has opened
    initCalls,    \* calls of IoWriter::init
    closeCalls,   \* calls of IoWriter::close
    nSent,        \* per producer, how many records it has enqueued
    lastSent,     \* the record enqueued last
    writtenBy,    \* per producer, which of its records (the 1st, the 2nd, ..)
                  \* were passed to IoWriter::write, in the order of the calls
    writeRes,     \* the result of every finished write, in order
    faults,       \* I/O errors injected so far
    loaderPc,     \* where the loader task stands
    loaderBuf,    \* the bytes the loader has read
    loadChan,     \* the loader's delivery channel
    delivered,    \* every value the loader sent, in order
    slot,         \* the resource R of the World: <<>> while absent, else <<v>>
    changed,      \* R was inserted or mutated since the Update schedule last ran
    sync_res,     \* FileSinkPlugin.sync_res
    syncOnChange  \* whether the application wants its resource synced on change

vars == <<fileExists, fileData, fileAtStart, exited, clones, queue, sendResult,
          tasks, pc, msg, lockHeld, wOpen, wBuf, wPos, opens, initCalls,
          closeCalls, nSent, lastSent, writtenBy, writeRes, faults, loaderPc, loaderBuf,
          loadChan, delivered, slot, changed, sync_res, syncOnChange>>

fileVars == <<fileExists, fileData, fileAtStart>>
chanVars == <<queue, sendResult, nSent, lastSent>>
taskVars == <<tasks, pc, msg, lockHeld, initCalls, closeCalls, writtenBy, writeRes>>
writerVars == <<wOpen, wBuf, wPos, opens>>
loadVars == <<loaderPc, loaderBuf, loadChan, delivered, slot>>
appVars == <<changed, sync_res, syncOnChange>>

\* A record in the channel, with who sent it and as which of its sends.
NoMsg == [rec |-> Default, by |-> "none", seq |-> 0]

\* What the destination may hold before the app starts: nothing at all, a
\* saved record, text that is no record, bytes that are no text. (An empty
\* file is what opening a missing one leaves.)
Missing == [exists |-> FALSE, data |-> <<>>]
StartFiles ==
    {Missing} \cup
    {[exists |-> TRUE, data |-> d] : d \in {Ser(12), <<JUNK>>, <<1, BADUTF8>>}}

\* The state FileSinkPlugin::build leaves, whatever the plugin's sync_res.
Built ==
    /\ fileAtStart \in StartFiles
    /\ fileExists = fileAtStart.exists
    /\ fileData = fileAtStart.data
    /\ exited = FALSE
    /\ clones = Producers \ {"system"}
    /\ queue = <<>>
    /\ sendResult = "none"
    /\ tasks = 0
    /\ pc = "unspawned"
    /\ msg = NoMsg
    /\ lockHeld = FALSE
    /\ wOpen = FALSE
    /\ wBuf = <<>>
    /\ wPos = 0
    /\ opens = 0
    /\ initCalls = 0
    /\ closeCalls = 0
    /\ nSent = [p \in Producers |-> 0]
    /\ lastSent = NoMsg
    /\ writtenBy = [p \in Producers |-> <<>>]
    /\ writeRes = <<>>
    /\ faults = 0
    /\ loaderPc = "unspawned"
    /\ loaderBuf = <<>>
    /\ loadChan = <<>>
    /\ delivered = <<>>
    /\ slot = <<>>
    /\ changed = FALSE

\* FileSinkPlugin::new(path) sets sync_res: false; the field is private and
\* nothing else in the crate sets it.
NewSyncRes == FALSE

\* An application that builds the plugin with FileSinkPlugin::new and sends
\* through the handle itself.
Init ==
    /\ Built
    /\ syncOnChange = FALSE
    /\ sync_res = NewSyncRes

\* An I/O call may fail while the environment has errors left to inject.
MayFail == faults < MaxFaults

\* ----------------------------------------------------------- sink channel
\* Live Sender handles: the IoSender resource and its clones.
SenderCount == (IF exited THEN 0 ELSE 1) + Cardinality(clones)

\* The persistence task holds its clone of rx from spawn until it ends.
TaskAlive == pc \notin {"unspawned", "done", "panicked"}

\* Live Receiver handles: the one in IoSinkTaskData and the task's clone.
ReceiverCount == (IF exited THEN 0 ELSE 1) + (IF TaskAlive THEN 1 ELSE 0)

\* A faulty channel that closes as soon as the World is dropped, although the
\* task still holds a Receiver.
ChanClosedOnExit == exited

\* async_channel closes a channel when its last Sender or its last Receiver
\* is dropped.
ChanClosed == SenderCount = 0 \/ ReceiverCount = 0

\* A faulty channel built with bounded(1).
ChanFullBounded(q) == Len(q) >= 1

\* unbounded(): the channel has no capacity.
ChanFull(q) == FALSE

\* Sender::try_send
TrySendResult(q) ==
    IF ChanClosed THEN "Closed"
    ELSE IF ChanFull(q) THEN "Full"
    ELSE "Ok"

\* Producer p can reach a Sender: the resource while the World lives, or its
\* own clone.
HoldsHandle(p) == IF p = "system" THEN ~exited ELSE p \in clones

RECURSIVE SumOver(_, _)
SumOver(f, S) ==
    IF S = {} THEN 0
    ELSE LET x == CHOOSE y \in S : TRUE IN f[x] + SumOver(f, S \ {x})

\* Records enqueued so far.
TotalSent == SumOver(nSent, Producers)

\* Records passed to IoWriter::write so far.
TotalWritten == SumOver([p \in Producers |-> Len(writtenBy[p])], Producers)

\* sender.try_send(res.clone()), the error logged and dropped.
TrySendEffect(p, r) ==
    LET res == TrySendResult(queue)
        m == [rec |-> r, by |-> p, seq |-> nSent[p] + 1]
    IN /\ sendResult' = res
       /\ IF res = "Ok"
          THEN /\ queue' = Append(queue, m)
               /\ nSent' = [nSent EXCEPT ![p] = @ + 1]
               /\ lastSent' = m
          ELSE UNCHANGED <<queue, nSent, lastSent>>

\* A producer sends a record through its handle, as the example's
\* player_movement does.
TrySend(p, r) ==
    /\ HoldsHandle(p)
    /\ TotalSent < MaxSends
    /\ TrySendEffect(p, r)
    /\ UNCHANGED <<appVars, fileVars, exited, clones, taskVars, writerVars, faults, loadVars>>

\* A producer drops its clone of IoSender.
DropHandle(p) ==
    /\ p \in clones
    /\ clones' = clones \ {p}
    /\ UNCHANGED <<appVars, fileVars, exited, chanVars, taskVars, writerVars, faults, loadVars>>


\* ------------------------------------------------------- persistence task
\* A faulty registration of the spawning system in a schedule that runs every
\* tick.
SpawnAlways == TRUE

\* The Startup schedule runs its systems once.
StartupPending == tasks = 0

\* spawn_io_sink_task: clone rx and the writer, spawn the task.
SpawnIoSinkTask ==
    /\ ~exited
    /\ StartupPending
    /\ tasks' = tasks + 1
    /\ pc' = "lock"
    /\ UNCHANGED <<appVars, fileVars, exited, clones, chanVars, msg, lockHeld, initCalls,
                   closeCalls, writtenBy, writeRes, writerVars, faults, loadVars>>

\* writer.lock().await
TaskLock ==
    /\ pc = "lock"
    /\ ~lockHeld
    /\ lockHeld' = TRUE
    /\ pc' = "init"
    /\ UNCHANGED <<appVars, fileVars, exited, clones, chanVars, tasks, msg, initCalls,
                   closeCalls, writtenBy, writeRes, writerVars, faults, loadVars>>

\* A faulty open with truncate(true).
OpenTruncate(exists, data) == <<>>

\* OpenOptions::new().create(true).read(true).write(true).append(false)
\* .open(path): creates an empty file when there is none, and leaves an
\* existing file as it is.
OpenCreate(exists, data) == IF exists THEN data ELSE <<>>

\* writer_lock.init().await, an error logged: FileSink::init opens the file
\* and wraps it in a BufWriter, or fails and leaves self.writer None.
TaskInit ==
    /\ pc = "init"
    /\ initCalls' = initCalls + 1
    /\ pc' = "recv"
    /\ \/ /\ fileData' = OpenCreate(fileExists, fileData)
          /\ fileExists' = TRUE
          /\ wOpen' = TRUE
          /\ wBuf' = <<>>
          /\ wPos' = 0
          /\ opens' = opens + 1
          /\ UNCHANGED faults
       \/ /\ MayFail
          /\ faults' = faults + 1
          /\ UNCHANGED <<fileExists, fileData, writerVars>>
    /\ UNCHANGED <<appVars, fileAtStart, exited, clones, chanVars, tasks, msg, lockHeld,
                   closeCalls, writtenBy, writeRes, loadVars>>

\* A faulty channel that hands out the newest record first.
ChanPopNewest(q) == [m |-> q[Len(q)], rest |-> SubSeq(q, 1, Len(q) - 1)]

\* Receiver::recv on a non-empty channel: the oldest record.
ChanPop(q) == [m |-> Head(q), rest |-> Tail(q)]

\* A faulty loop that ends as soon as the channel is empty (try_recv in place
\* of recv).
RecvEndsWhenEmpty(q) == q = <<>>

\* Receiver::recv returns Err once the channel is closed and empty.
RecvEnds(q) == q = <<>> /\ ChanClosed

\* A faulty loop that leaves on the first write error.
PcAfterWriteErrorAbort == "close"

\* if let Err(e) = writer_lock.write(msg).await { error!(..) }: the loop
\* goes on to the next recv.
PcAfterWriteError == "recv"

\* rx.recv() returns a record and FileSink::write starts on it: serialize,
\* then self.writer.as_mut().expect(..), which panics when init has failed.
\* The panic unwinds the task: the mutex guard and rx are dropped.
TaskRecv ==
    /\ pc = "recv"
    /\ queue # <<>>
    /\ LET got == ChanPop(queue)
       IN /\ msg' = got.m
          /\ queue' = got.rest
          /\ writtenBy' = [writtenBy EXCEPT ![got.m.by] = Append(@, got.m.seq)]
    /\ IF wOpen
       THEN pc' = "seek" /\ UNCHANGED lockHeld
       ELSE pc' = "panicked" /\ lockHeld' = FALSE
    /\ UNCHANGED <<appVars, fileVars, exited, clones, sendResult, nSent, lastSent, tasks, initCalls,
                   closeCalls, writeRes, writerVars, faults, loadVars>>

\* rx.recv() returns Err: the while-let loop ends.
TaskRecvClosed ==
    /\ pc = "recv"
    /\ RecvEnds(queue)
    /\ pc' = "close"
    /\ UNCHANGED <<appVars, fileVars, exited, clones, chanVars, tasks, msg, lockHeld,
                   initCalls, closeCalls, writtenBy, writeRes, writerVars, faults,
                   loadVars>>

\* The write ends with an error.
WriteFails ==
    /\ faults' = faults + 1
    /\ writeRes' = Append(writeRes, "err")
    /\ pc' = PcAfterWriteError

\* BufWriter::write_all(&json) on a buffer that holds buffered bytes: data
\* shorter than the capacity is appended to the buffer, longer data goes
\* straight to the file at the cursor.
WriteAll(st, json) ==
    IF Len(json) >= BufCap
    THEN [data |-> WriteAt(st.data, st.pos, json), buf |-> st.buf,
          pos |-> st.pos + Len(json)]
    ELSE [data |-> st.data, buf |-> st.buf \o json, pos |-> st.pos]

\* BufWriter's flush_buf, stopped by an error after k bytes (k = Len(buf):
\* no error): the first k buffered bytes are written at the cursor, the
\* rest stays buffered.
FlushBuf(st, k) ==
    [data |-> IF k = 0 THEN st.data ELSE WriteAt(st.data, st.pos, Take(st.buf, k)),
     buf |-> Drop(st.buf, k),
     pos |-> st.pos + k]

\* The writer's handle and the file under it.
WriterState == [data |-> fileData, buf |-> wBuf, pos |-> wPos]

\* writer.seek(SeekFrom::Start(0)), then writer.write_all(&json). The seek
\* first writes out what the BufWriter still buffers (left there by an
\* earlier failed write), then moves the cursor to 0; an error in it returns
\* from write. write_all then only fills the buffer.
TaskSeek ==
    /\ pc = "seek"
    /\ \/ LET st == FlushBuf(WriterState, Len(wBuf))
              wr == WriteAll([st EXCEPT !.pos = 0], Ser(msg.rec))
          IN /\ fileData' = wr.data
             /\ wBuf' = wr.buf
             /\ wPos' = wr.pos
             /\ pc' = "set_len"
             /\ UNCHANGED <<faults, writeRes>>
       \/ /\ MayFail
          /\ \E k \in 0..Len(wBuf) :
                LET st == FlushBuf(WriterState, k)
                IN /\ fileData' = st.data
                   /\ wBuf' = st.buf
                   /\ wPos' = st.pos
          /\ WriteFails
    /\ UNCHANGED <<appVars, fileExists, fileAtStart, exited, clones, chanVars, tasks, msg,
                   lockHeld, initCalls, closeCalls, writtenBy, wOpen, opens,
                   loadVars>>

\* writer.get_mut().set_len(json.len()): on the file itself, under the
\* buffer. An error returns from write with the record still buffered.
TaskSetLen ==
    /\ pc = "set_len"
    /\ \/ /\ fileData' = SetLen(fileData, Len(Ser(msg.rec)))
          /\ pc' = "flush"
          /\ UNCHANGED <<faults, writeRes>>
       \/ /\ MayFail
          /\ WriteFails
          /\ UNCHANGED fileData
    /\ UNCHANGED <<appVars, fileExists, fileAtStart, exited, clones, chanVars, tasks, msg,
                   lockHeld, initCalls, closeCalls, writtenBy, writerVars, loadVars>>

\* writer.flush(): the buffer is written at the cursor. An error after k
\* bytes keeps the rest buffered.
TaskFlush ==
    /\ pc = "flush"
    /\ \/ LET st == FlushBuf(WriterState, Len(wBuf))
          IN /\ fileData' = st.data
             /\ wBuf' = st.buf
             /\ wPos' = st.pos
             /\ writeRes' = Append(writeRes, "ok")
             /\ pc' = "recv"
             /\ UNCHANGED faults
       \/ /\ MayFail
          /\ \E k \in 0..Len(wBuf) :
                LET st == FlushBuf(WriterState, k)
                IN /\ fileData' = st.data
                   /\ wBuf' = st.buf
                   /\ wPos' = st.pos
          /\ WriteFails
    /\ UNCHANGED <<appVars, fileExists, fileAtStart, exited, clones, chanVars, tasks, msg,
                   lockHeld, initCalls, closeCalls, writtenBy, wOpen, opens,
                   loadVars>>

\* writer_lock.close().await (FileSink keeps the default, which does
\* nothing), then the task ends and drops the mutex guard and rx.
TaskClose ==
    /\ pc = "close"
    /\ closeCalls' = closeCalls + 1
    /\ pc' = "done"
    /\ lockHeld' = FALSE
    /\ UNCHANGED <<appVars, fileVars, exited, clones, chanVars, tasks, msg, initCalls,
                   writtenBy, writeRes, writerVars, faults, loadVars>>


\* ------------------------------------------------------------ loader task
\* The Startup system of FileSinkPlugin::build: spawn the loader.
SpawnLoader ==
    /\ ~exited
    /\ loaderPc = "unspawned"
    /\ loaderPc' = "open"
    /\ UNCHANGED <<appVars, fileVars, exited, clones, chanVars, taskVars, writerVars,
                   faults, loaderBuf, loadChan, delivered, slot>>

\* The loader opens the path as the writer does; on an error it logs and
\* returns. The loader ends in "done" (it parsed what it read and sent the
\* value), "failed_open" or "failed_read".
LoaderOpen ==
    /\ loaderPc = "open"
    /\ \/ /\ fileData' = OpenCreate(fileExists, fileData)
          /\ fileExists' = TRUE
          /\ loaderPc' = "read"
          /\ UNCHANGED faults
       \/ /\ MayFail
          /\ faults' = faults + 1
          /\ loaderPc' = "failed_open"
          /\ UNCHANGED <<fileExists, fileData>>
    /\ UNCHANGED <<appVars, fileAtStart, exited, clones, chanVars, taskVars, writerVars,
                   loaderBuf, loadChan, delivered, slot>>

\* file.read_to_string(&mut buf): fails on an I/O error and on bytes that
\* are not UTF-8; the loader then logs and returns.
ReadToStringOk(data) == ValidUtf8(data)

\* The delivery channel closes when LoadFileReceiver is dropped with the
\* World.
LoadChanClosed == exited

\* read_to_string, and on a string serde_json::from_str(&buf)
\* .unwrap_or_default() and tx.send(msg), an error of the send logged.
LoaderRead ==
    /\ loaderPc = "read"
    /\ \/ /\ ReadToStringOk(fileData)
          /\ loaderBuf' = fileData
          /\ loaderPc' = "done"
          /\ LET v == FromStrOrDefault(fileData)
             IN IF LoadChanClosed
                THEN UNCHANGED <<loadChan, delivered>>
                ELSE /\ loadChan' = Append(loadChan, v)
                     /\ delivered' = Append(delivered, v)
          /\ UNCHANGED faults
       \/ /\ ~ReadToStringOk(fileData)
          /\ loaderPc' = "failed_read"
          /\ UNCHANGED <<loaderBuf, loadChan, delivered, faults>>
       \/ /\ MayFail
          /\ faults' = faults + 1
          /\ loaderPc' = "failed_read"
          /\ UNCHANGED <<loaderBuf, loadChan, delivered>>
    /\ UNCHANGED <<appVars, fileVars, exited, clones, chanVars, taskVars, writerVars, slot>>

\* ------------------------------------------------------- application loop
\* The systems other than Startup run once Startup has.
StartupDone == tasks > 0 /\ loaderPc # "unspawned"

\* A faulty insert that bypasses change detection.
InsertUnnoticed == FALSE

\* Commands::insert_resource marks the resource as added and changed.
InsertMarksChanged == TRUE

\* The FixedUpdate system: try_recv on the delivery channel and, on a value,
\* commands.insert_resource(msg). FixedUpdate and its commands run before
\* Update in a frame.
LoadRecv ==
    /\ ~exited
    /\ StartupDone
    /\ loadChan # <<>>
    /\ slot' = <<Head(loadChan)>>
    /\ loadChan' = Tail(loadChan)
    /\ changed' = InsertMarksChanged
    /\ UNCHANGED <<sync_res, syncOnChange, fileVars, exited, clones, chanVars, taskVars, writerVars,
                   faults, loaderPc, loaderBuf, delivered>>

\* The App ends: the World is dropped, and with it the IoSender resource,
\* IoSinkTaskData (its Receiver) and LoadFileReceiver.
AppExit ==
    /\ ~exited
    /\ StartupDone
    /\ exited' = TRUE
    /\ UNCHANGED <<appVars, fileVars, clones, chanVars, taskVars, writerVars, faults,
                   loadVars>>

\* Application logic mutates the resource through ResMut<R> (the example's
\* player_movement, which runs once the resource exists).
AppMutate(v) ==
    /\ ~exited
    /\ StartupDone
    /\ slot # <<>>
    /\ slot' = <<v>>
    /\ changed' = TRUE
    /\ UNCHANGED <<sync_res, syncOnChange, fileVars, exited, clones, chanVars,
                   taskVars, writerVars, faults, loaderPc, loaderBuf, loadChan,
                   delivered>>

\* A faulty run condition: resource_exists in place of
\* resource_exists_and_changed.
WatcherRunsIfExists == sync_res /\ slot # <<>>

\* sync_file is in the Update schedule only if sync_res, and runs only if
\* resource_exists_and_changed::<R>.
WatcherRuns == sync_res /\ slot # <<>> /\ changed

\* One run of the Update schedule: sync_file, when it runs, sends a clone of
\* the resource through the IoSender resource and logs an error; what was
\* changed before this run no longer counts as changed in the next.
UpdateTick ==
    /\ ~exited
    /\ StartupDone
    /\ IF WatcherRuns
       THEN /\ TotalSent < MaxSends
            /\ TrySendEffect("system", slot[1])
       ELSE UNCHANGED chanVars
    /\ changed' = FALSE
    /\ UNCHANGED <<sync_res, syncOnChange, fileVars, exited, clones, taskVars,
                   writerVars, faults, loadVars>>

\* ----------------------------------------------------------- specification
Next ==
    \/ \E p \in Producers, r \in Records : TrySend(p, r)
    \/ \E p \in Producers : DropHandle(p)
    \/ SpawnIoSinkTask
    \/ TaskLock
    \/ TaskInit
    \/ TaskRecv
    \/ TaskRecvClosed
    \/ TaskSeek
    \/ TaskSetLen
    \/ TaskFlush
    \/ TaskClose
    \/ SpawnLoader
    \/ LoaderOpen
    \/ LoaderRead
    \/ LoadRecv
    \/ AppExit

Spec == Init /\ [][Next]_vars

\* The same application with its own logic in the loop: it asks, or not, for
\* the resource to be synced on change, builds the plugin with
\* FileSinkPlugin::new, mutates the resource and lets the frames run.
InitApp ==
    /\ Built
    /\ syncOnChange \in BOOLEAN
    /\ sync_res = NewSyncRes

NextApp ==
    \/ Next
    \/ \E v \in Records : AppMutate(v)
    \/ UpdateTick

SpecApp == InitApp /\ [][NextApp]_vars

\* The plugin with sync_res set, as only code inside the crate can build it.
\* The application leaves the saving to sync_file; the holder of the clone
\* still sends on its own.
InitWatch ==
    /\ Built
    /\ syncOnChange = TRUE
    /\ sync_res = TRUE

NextWatch ==
    \/ \E r \in Records : TrySend("clone", r)
    \/ \E p \in Producers : DropHandle(p)
    \/ SpawnIoSinkTask
    \/ TaskLock
    \/ TaskInit
    \/ TaskRecv
    \/ TaskRecvClosed
    \/ TaskSeek
    \/ TaskSetLen
    \/ TaskFlush
    \/ TaskClose
    \/ SpawnLoader
    \/ LoaderOpen
    \/ LoaderRead
    \/ LoadRecv
    \/ AppExit
    \/ \E v \in Records : AppMutate(v)
    \/ UpdateTick

SpecWatch == InitWatch /\ [][NextWatch]_vars


\* ------------------------------------------------------------------ claims
Last(s) == s[Len(s)]

\* The persistence task is between two records: waiting in recv, or past
\* the loop.
TaskIdle == pc \in {"recv", "close", "done"}

\* Every record enqueued has been written and the last write returned Ok.
Drained ==
    /\ TotalSent > 0
    /\ queue = <<>>
    /\ TaskIdle
    /\ Len(writeRes) = TotalSent
    /\ Last(writeRes) = "ok"

\* C1 (last write wins): once every record sent has been taken off the
\* channel and the last write has flushed, the file holds exactly the
\* serialization of the record sent last, whatever was written before it.
C1_LastWriteWins ==
    Drained => /\ fileExists
               /\ fileData = Ser(lastSent.rec)
               /\ Len(fileData) = Len(Ser(lastSent.rec))

\* A short record has replaced longer content, after as many sends as the
\* bound allows.
C1_Witness ==
    /\ Drained
    /\ TotalSent = MaxSends
    /\ fileAtStart.data = Ser(12)
    /\ lastSent.rec = 7

WriterBusy == pc \in {"init", "seek", "set_len", "flush", "close"}

\* C3 (single writer): there is never more than one persistence task, the
\* writer is only ever used by the task that holds its mutex, and
\* FileSink::init opens no more than one handle on the destination, also
\* when both producers send.
C3_SingleWriter ==
    /\ tasks <= 1
    /\ opens <= 1
    /\ (WriterBusy => lockHeld)
    /\ (wOpen => opens = 1)
    /\ (TotalWritten > 0 => tasks = 1)

\* Both producers have sent and both records went through the one handle.
C3_Witness ==
    /\ \A p \in Producers : writtenBy[p] = <<1>>
    /\ writeRes = <<"ok", "ok">>
    /\ opens = 1

\* C4 (non-blocking enqueue): a producer that holds a handle can always
\* send (up to the bound on sends of this model), whatever the queue holds
\* and wherever the persistence task stands, and no try_send ever returns
\* Full: on an open channel it returns Ok.
C4_NonBlockingEnqueue ==
    /\ sendResult # "Full"
    /\ (~ChanClosed => TrySendResult(queue) = "Ok")
    /\ \A p \in Producers :
          (HoldsHandle(p) /\ TotalSent < MaxSends)
              => ENABLED (\E r \in Records : TrySend(p, r))

\* A send has returned Ok with a record already waiting while the writer is
\* in the middle of a write.
C4_Witness ==
    /\ sendResult = "Ok"
    /\ Len(queue) >= 1
    /\ pc = "flush"

\* The persistence task has ended, by returning or by a panic.
Terminated == pc \in {"done", "panicked"}

\* C5 (send fails only after the task has ended): whenever the latest
\* try_send returned an error the persistence task has ended, and the step
\* in which a send fails changes nothing else: the error goes no further.
C5_SendFailsOnlyAfterTermination ==
    /\ [](sendResult \notin {"none", "Ok"} => Terminated)
    /\ [][(sendResult' \notin {"none", "Ok"} /\ sendResult' # sendResult)
            => UNCHANGED <<fileVars, exited, clones, queue, nSent, lastSent,
                           taskVars, writerVars, faults, loadVars>>]_vars

\* A send has failed.
C5_Witness == sendResult = "Closed"

\* C6 (writer lifecycle): init is called once, before the task takes its
\* first record; close is called at most once, only when the channel is
\* closed and empty and every write has returned; after close no record is
\* passed to write.
C6_Lifecycle ==
    /\ [](/\ initCalls <= 1
          /\ (pc \notin {"unspawned", "lock", "init"} => initCalls = 1)
          /\ (TotalWritten > 0 => initCalls = 1)
          /\ closeCalls <= 1
          /\ (closeCalls = 1 => /\ ChanClosed
                                /\ queue = <<>>
                                /\ pc = "done"
                                /\ Len(writeRes) = TotalWritten))
    /\ [][closeCalls >= 1 => writtenBy' = writtenBy]_vars

\* close has been called after a write.
C6_Witness == closeCalls = 1 /\ TotalWritten >= 1 /\ initCalls = 1


\* FileSink::init has returned an error: self.writer is still None.
InitFailed == initCalls = 1 /\ opens = 0 /\ pc # "init"

\* C7 (non-fatal prepare): after a failed init the persistence task is
\* never aborted: it goes on receiving records and calling write, and ends
\* only through close.
C7_FailedInitNeverAborts == InitFailed => pc # "panicked"

\* Some write before the last one returned an error.
EarlierWriteFailed ==
    \E i \in 1..(Len(writeRes) - 1) : writeRes[i] = "err"

\* C8 (a failed write is skipped): the step in which a write returns an
\* error leaves the task waiting in recv for the next record, with the
\* channel as it was and the failed record not passed to write again; and
\* when a later write has returned Ok the file holds exactly that record,
\* with nothing of the failed write left in it.
C8_FailedWriteSkipped ==
    /\ []((TaskIdle /\ writeRes # <<>> /\ Last(writeRes) = "ok" /\ EarlierWriteFailed)
            => fileData = Ser(msg.rec))
    /\ [](Len(writeRes) <= TotalWritten /\ TotalWritten <= TotalSent)
    /\ [][writeRes' = Append(writeRes, "err")
            => /\ pc' = "recv"
               /\ queue' = queue
               /\ writtenBy' = writtenBy]_vars

\* A write has failed and the next one has succeeded.
C8_Witness == writeRes = <<"err", "ok">> /\ TaskIdle

\* C9 (loader default on failure): when the loader has failed to read the
\* file, or has read bytes that do not parse, and the delivery channel was
\* still open, the loader has delivered the default value.
C9_DefaultOnReadOrParseFailure ==
    (/\ ~exited
     /\ \/ loaderPc = "failed_read"
        \/ loaderPc = "done" /\ ~ParseOk(loaderBuf))
        => delivered = <<Default>>

\* C10 (default on missing): when there was no file at startup and the
\* loader has opened the path and run to its end with the delivery channel
\* still open, the file exists, the loader has delivered the default value,
\* and the resource, once installed, is that value.
C10_DefaultOnMissing ==
    (/\ ~exited
     /\ ~fileAtStart.exists
     /\ loaderPc \in {"failed_read", "done"})
        => /\ fileExists
           /\ delivered = <<Default>>
           /\ slot \in {<<>>, <<Default>>}

\* The loader has returned.
LoaderEnded == loaderPc \in {"failed_open", "failed_read", "done"}

\* What holds of the one-shot load in every run: the loader sends at most
\* one value, and the resource, once installed by the load receiver, is
\* that value and stays it.
LoadAtMostOnce ==
    /\ Len(delivered) <= 1
    /\ Len(loadChan) <= 1
    /\ (slot # <<>> => (slot = delivered /\ loadChan = <<>>))

\* C11 (one-shot load): the loader sends at most one value; when it has
\* returned with the delivery channel still open it has sent exactly one;
\* the resource, once installed, is that value and is not installed again.
C11_OneShotLoad ==
    /\ LoadAtMostOnce
    /\ ((~exited /\ LoaderEnded) => Len(delivered) = 1)

\* The write that returned last returned Ok and no other has begun.
LastWriteOk == TaskIdle /\ writeRes # <<>> /\ Last(writeRes) = "ok"

\* C12 (no partial records): whenever the write that returned last returned
\* Ok and the task has not begun another, the file is exactly the
\* serialization of that write's record: it parses, to that record, and
\* holds no byte of another write, whatever the file held before and
\* whether or not an earlier write failed part-way.
C12_NoPartialRecords ==
    LastWriteOk => /\ fileExists
                   /\ fileData = Ser(msg.rec)
                   /\ ParseOk(fileData)
                   /\ FromStrOrDefault(fileData) = msg.rec

\* The one-byte record has been written with success over a file that held
\* two bytes at startup, after a write that failed.
C12_Witness ==
    /\ LastWriteOk
    /\ writeRes = <<"err", "ok">>
    /\ msg.rec = 7
    /\ fileAtStart = [exists |-> TRUE, data |-> Ser(12)]

\* C13 (load/save race does not corrupt the file): no step of the loader
\* (its open-or-create, its read) changes the content or the length of
\* the file, wherever the persistence task stands in a write; so once the
\* loader has begun and every record sent has been written, the file is
\* exactly the serialization of the last record written.
C13_LoaderLeavesFileAlone ==
    /\ [][loaderPc' # loaderPc
            => /\ fileData' = fileData
               /\ Len(fileData') = Len(fileData)]_vars
    /\ []((Drained /\ loaderPc # "unspawned")
            => /\ fileExists
               /\ fileData = Ser(msg.rec)
               /\ msg.rec = lastSent.rec)

\* The loader has read and delivered a record that was written over the
\* file's startup content before it read, and a second record has been
\* written since.
C13_Witness ==
    /\ Drained
    /\ loaderPc = "done"
    /\ fileAtStart = [exists |-> TRUE, data |-> Ser(12)]
    /\ delivered = <<7>>
    /\ TotalWritten = 2
    /\ msg.rec = 12

\* The persistence task is no longer in its receive loop.
LeftRunning == pc \in {"close", "done", "panicked"}

\* C14 (drain, then terminate): the persistence task is out of its receive
\* loop only with the channel closed and empty and every record sent passed
\* to write, and it has stopped only after one call of close.
C14_DrainThenTerminate ==
    /\ (LeftRunning => (ChanClosed /\ queue = <<>> /\ TotalWritten = TotalSent))
    /\ (Terminated => closeCalls = 1)

\* The paths out of the receive loop other than the panic of C7: they are
\* taken only with the channel closed and empty and nothing lost.
DrainedWhenClosed ==
    pc \in {"close", "done"}
        => /\ ChanClosed
           /\ queue = <<>>
           /\ TotalWritten = TotalSent
           /\ (pc = "done" => closeCalls = 1)

\* C15 (every record is written once): whatever has been passed to write
\* is, for each producer, its records in order with none skipped and none
\* twice; a record still in the channel has a task that will take it; and
\* a task that has stopped has been passed every record sent.
C15_EveryRecordWrittenOnce ==
    /\ \A p \in Producers :
          writtenBy[p] = [i \in 1..Len(writtenBy[p]) |-> i]
    /\ TotalWritten + Len(queue) = TotalSent
    /\ (queue # <<>> => ~Terminated)
    /\ (pc = "done" => TotalWritten = TotalSent)

\* What holds of it in every run: each record sent is in the channel or
\* has been passed to write, once and in order, and a task that has
\* returned has been passed them all.
NoneSkippedOrRepeated ==
    /\ \A p \in Producers :
          writtenBy[p] = [i \in 1..Len(writtenBy[p]) |-> i]
    /\ TotalWritten + Len(queue) = TotalSent
    /\ (pc = "done" => TotalWritten = TotalSent)

\* C19 (the loader reads no half-written file): the bytes the loader has
\* read and parsed are the content the file had at startup (nothing, for a
\* file that was not there) or the serialization of one record.
C19_LoaderReadsWholeRecord ==
    loaderPc = "done"
        => loaderBuf \in {fileAtStart.data} \cup {Ser(r) : r \in Records}

\* What holds of a plugin built with FileSinkPlugin::new: the resource
\* being installed or mutated, and a frame passing, leave the channel and
\* the file as they are; records come only from try_send on a handle.
NewNeverEnqueues ==
    [][(sync_res = NewSyncRes /\ (slot' # slot \/ changed' # changed))
          => (chanVars' = chanVars /\ fileVars' = fileVars)]_vars

\* C17 (sync on change is an option, off by default): when the application
\* has not asked for it, a change of the resource or the passing of a frame
\* leaves the channel and the file as they are; when it has asked for it,
\* the frame that follows a change of the resource enqueues the resource's
\* value.
C17_SyncOnChangeOption ==
    /\ [][(~syncOnChange /\ (slot' # slot \/ changed' # changed))
            => (chanVars' = chanVars /\ fileVars' = fileVars)]_vars
    /\ [][(syncOnChange /\ slot # <<>> /\ changed /\ ~changed')
            => (/\ Len(queue') = Len(queue) + 1
                /\ Last(queue').rec = slot[1])]_vars

\* The record sync_file enqueues: a clone of the resource, sent through
\* the IoSender resource.
Snapshot == [rec |-> slot[1], by |-> "system", seq |-> nSent["system"] + 1]

\* C16 (change watcher): with sync_file registered, a run of the Update
\* schedule that finds the resource changed since the last run appends
\* exactly one record to the channel, equal to the resource's value at that
\* run, however many times it was changed in between and also when the
\* value is the one it had; and the IoSender resource sends only then, so a
\* run that finds no resource or no change enqueues nothing.
C16_ChangeWatcher ==
    /\ [][(slot # <<>> /\ changed /\ ~changed')
            => (/\ queue' = Append(queue, Snapshot)
                /\ nSent' = [nSent EXCEPT !["system"] = @ + 1]
                /\ slot' = slot)]_vars
    /\ [][nSent'["system"] # nSent["system"]
            => (/\ slot # <<>>
                /\ changed
                /\ ~changed'
                /\ queue' = Append(queue, Snapshot))]_vars

\* Two runs of Update have each found a change and enqueued a snapshot, the
\* second of a value the application set.
C16_Witness ==
    /\ nSent["system"] = 2
    /\ ~changed
    /\ slot # delivered
    /\ lastSent = [rec |-> slot[1], by |-> "system", seq |-> 2]

\* C18 (the loaded value is written back): with sync_file registered, the
\* step that installs the loader's value marks the resource changed; the
\* run of Update that finds that change enqueues a snapshot equal to the
\* loaded value, so once a frame has passed over an installed resource the
\* IoSender resource has sent; and when the first snapshot is of the loaded
\* value and is the last record sent, the file, once the channel has
\* drained, is the loaded value, whatever was saved before.
C18_LoadedValueWrittenBack ==
    /\ [][(slot = <<>> /\ slot' # <<>>)
            => (changed' /\ slot' = <<Head(loadChan)>>)]_vars
    /\ [][(changed /\ ~changed' /\ slot = delivered /\ nSent["system"] = 0)
            => (/\ Last(queue').rec = delivered[1]
                /\ Last(queue').by = "system")]_vars
    /\ []((slot # <<>> /\ ~changed) => nSent["system"] >= 1)
    /\ []((Drained /\ delivered # <<>>
              /\ lastSent = [rec |-> delivered[1], by |-> "system", seq |-> 1])
            => fileData = Ser(delivered[1]))

\* A record sent through the clone was written, then the snapshot of the
\* installed default value: the file now holds the default.
C18_Witness ==
    /\ Drained
    /\ delivered = <<Default>>
    /\ slot = <<Default>>
    /\ writtenBy = [system |-> <<1>>, clone |-> <<1>>]
    /\ writeRes = <<"ok", "ok">>
    /\ lastSent = [rec |-> Default, by |-> "system", seq |-> 1]
    /\ fileData = Ser(Default)

====
